---- MODULE Spec2Model ----
(***************************************************************************)
(* Model of pkg-builder (src/src/main.rs): one run of main(), from the     *)
(* creation of the scratch directories to "Package built successfully" or  *)
(* a panic.  Strings are sequences of tokens, so that the string           *)
(* operations of the code (ends_with, format!, split_whitespace, replace,  *)
(* rsplitn) are computed and not assumed.                                  *)
(***************************************************************************)
EXTENDS Naturals, Sequences, FiniteSets

(* ------------------------------ bounds -------------------------------- *)

\* longest `source` list of a descriptor
MaxSources == 2
\* longest `subpackage` list of a descriptor
MaxSubpackages == 2
\* chunks the child writes to each of its two pipes
MaxChunks == 1
\* last second the clock shows
MaxClock == 2

(* ------------------------- strings as tokens -------------------------- *)

SLASH == "/"
SPACE == " "
STAR == "*"
\* the token standing for the text of out_dir (main.rs:226-229)
OUT == "$OUT"

\* str::ends_with
EndsWith(s, suffix) ==
    /\ Len(suffix) <= Len(s)
    /\ SubSeq(s, Len(s) - Len(suffix) + 1, Len(s)) = suffix

(* ---------------------------- descriptors ----------------------------- *)

NoDestination == << >>

\* the `source` strings of the model
Urls ==
    { <<"repo", ".git">>, <<"pkg", ".tar", ".gz">>, <<"pkg", ".zip">>,
      <<"notes", ".txt">> }

\* the other suffixes of the tar family
OtherTarballs == { <<"pkg", ".tgz">>, <<"pkg", ".tar", ".bz2">>, <<"pkg", ".tar", ".xz">> }

Destinations == { NoDestination, <<SLASH, "src">> }

\* PkgFileSource: git_commit with and without a .git source, each kind of
\* source with and without a destination
SourceSpecs ==
    [source : { <<"repo", ".git">> }, git_commit : BOOLEAN, destination : Destinations]
    \cup
    [source : Urls, git_commit : {FALSE}, destination : Destinations]
    \cup
    [source : { <<"pkg", ".tar", ".gz">> }, git_commit : {TRUE},
     destination : { NoDestination }]

RECURSIVE SeqsUpTo(_, _)
SeqsUpTo(S, n) ==
    IF n = 0 THEN { << >> }
    ELSE LET shorter == SeqsUpTo(S, n - 1)
         IN shorter \cup { Append(q, x) : q \in { r \in shorter : Len(r) = n - 1 }, x \in S }

\* the pieces of s between the separators, empty pieces dropped
\* (str::split_whitespace for sep = SPACE; path components for sep = SLASH)
RECURSIVE Split(_, _)
Split(s, sep) ==
    IF s = << >> THEN << >>
    ELSE IF Head(s) = sep THEN Split(Tail(s), sep)
    ELSE LET n == IF \E i \in 1..Len(s) : s[i] = sep
                   THEN (CHOOSE i \in 1..Len(s) :
                            s[i] = sep /\ \A j \in 1..(i - 1) : s[j] # sep) - 1
                   ELSE Len(s)
         IN << SubSeq(s, 1, n) >> \o Split(SubSeq(s, n + 1, Len(s)), sep)

\* the `source` lists: every list of SourceSpecs, and one source of each
\* other suffix of the tar family
SourceLists ==
    SeqsUpTo(SourceSpecs, MaxSources)
    \cup
    { << [source |-> u, git_commit |-> FALSE, destination |-> NoDestination] >> :
        u \in OtherTarballs }

\* files the build script may leave in out_dir, as paths relative to out_dir
BinFile == <<SLASH, "bin">>
LibFile == <<SLASH, "lib", SLASH, "x">>
SpacedFile == <<SLASH, "a", SPACE, "b">>
OutTrees == { {}, {BinFile, LibFile}, {BinFile, LibFile, SpacedFile} }

\* exit statuses of the build script
ExitCodes == { 0, 1, 2 }

\* PkgFileBuild: the script, given by what it does when run
NoBuild == [present |-> FALSE]

\* scripts that print nothing and exit with status 0
QuietScripts ==
    { [present |-> TRUE, status |-> 0, writes |-> t, chunks |-> 0] : t \in OutTrees }

\* scripts that print on both streams, one for each exit status
ChattyScripts ==
    { [present |-> TRUE, status |-> e, writes |-> {BinFile}, chunks |-> MaxChunks] :
        e \in ExitCodes }

\* file selectors of subpackages (relative glob patterns)
AllPattern == <<SLASH, STAR>>
LibPattern == <<SLASH, "lib", SLASH, STAR>>
BinPattern == <<SLASH, "bin">>
DocPattern == <<SLASH, "doc", SLASH, STAR>>
FileLists == { <<AllPattern>>, <<BinPattern>>, <<DocPattern>>, <<LibPattern, AllPattern>> }

SubpackageNames == <<"sub1", "sub2", "sub3">>

\* PkgFileSubPackage lists: the i-th subpackage is named SubpackageNames[i]
SubpackageLists ==
    { [i \in 1..Len(fl) |-> [name |-> SubpackageNames[i], files |-> fl[i]]] :
        fl \in SeqsUpTo(FileLists, MaxSubpackages) }

\* PkgFile.  An absent `source` or `subpackage` list is the empty list: the
\* code runs its loop zero times in both cases.  The descriptors are those
\* with every source list and no subpackage, those with a printing script
\* and at most one subpackage, and those with a silent script or none and
\* every subpackage list.
PkgFiles ==
    { [name |-> "pkg", source |-> s, build |-> b, subpackage |-> << >>] :
        s \in SourceLists,
        b \in { NoBuild, [present |-> TRUE, status |-> 0, writes |-> {BinFile},
                          chunks |-> 0] } }
    \cup
    { [name |-> "pkg", source |-> << >>, build |-> b, subpackage |-> sp] :
        b \in ChattyScripts,
        sp \in { l \in SubpackageLists : Len(l) <= 1 } }
    \cup
    { [name |-> "pkg", source |-> << >>, build |-> b, subpackage |-> sp] :
        b \in QuietScripts \cup { NoBuild },
        sp \in SubpackageLists }

\* output_path arguments: a relative directory and an absolute directory
OutputPaths == { <<"out">>, <<SLASH, "srv">> }

\* components of a path, "." dropped
Normalize(p) == SelectSeq(Split(p, SLASH), LAMBDA c : c # <<".">>)

\* the working directory of the process, and package_dir, as absolute paths
Cwd == << <<"cwd">> >>
PackageDirPath == << <<"tmp">>, <<"package_dir">> >>

\* the absolute path a process with working directory `base` means by p
Resolve(base, p) ==
    IF p # << >> /\ Head(p) = SLASH THEN Normalize(p) ELSE base \o Normalize(p)

\* the directories fs::create_dir_all(p) makes exist
AllPrefixes(c) == { SubSeq(c, 1, n) : n \in 0..Len(c) }

\* the directory holding the file or directory c
Parent(c) == SubSeq(c, 1, Len(c) - 1)

\* a directory tree: the relative paths of its files and of its directories
EmptyTree == [files |-> {}, dirs |-> {}]

\* the directories a set of files lies in
DirsOf(files) ==
    UNION { { SubSeq(f, 1, k) : k \in { j \in 1..(Len(f) - 1) : f[j + 1] = SLASH } } :
            f \in files }

TreeOf(files) == [files |-> files, dirs |-> DirsOf(files)]

\* path p is d itself or lies under the directory d
Under(d, p) ==
    \/ p = d
    \/ /\ Len(p) > Len(d)
       /\ SubSeq(p, 1, Len(d)) = d
       /\ p[Len(d) + 1] = SLASH

\* a directory or a map of files with nothing in it
NoEntries == [n \in {} |-> EmptyTree]

\* f with the value v at the key k
With(f, k, v) == [n \in DOMAIN f \cup {k} |-> IF n = k THEN v ELSE f[n]]

\* f without the keys in ks
Without(f, ks) == [n \in DOMAIN f \ ks |-> f[n]]

(* ------------------------------- state -------------------------------- *)

VARIABLES
    package_file,   \* the parsed descriptor (main.rs:61)
    output_path,    \* second argument (main.rs:52)
    shopt_works,    \* whether `sh` knows shopt (bash) or not (dash)
    pc,             \* position of the main thread in main()
    panic_msg,      \* message of the panic that ended the run, or ""
    scratch,        \* which of build_dir, out_dir, package_dir exist
    source_idx,     \* index of the source being fetched
    build_tree,     \* destination directories existing under build_dir
    tmpdownload,    \* destinations d whose d.tmpdownload file exists
    errlog,         \* messages written with eprintln!, with the loop index
    faults,         \* kinds of failure the environment has injected
    child,          \* the build script's process
    pipes,          \* chunks written by the child and not yet copied
    threads,        \* the two copy threads
    out_tree,       \* files under out_dir, relative to it
    sub_idx,        \* index of the subpackage being handled
    sel_idx,        \* index of the file selector being expanded
    words,          \* words of the expansion still to be moved
    package_tree,   \* directories under package_dir and their contents
    output_dirs,    \* directories outside the scratch area (absolute paths)
    tarballs,       \* archives written so far: absolute path -> content
    issued,         \* the fetch commands run so far, in order, with the source index
    clock,          \* the system clock, in seconds
    invocation,     \* concurrent runs of setup_build_environment
    tmp_users       \* directories of /tmp/pkgbuilder -> invocations that made them

vars ==
    << package_file, output_path, shopt_works, pc, panic_msg, scratch,
       source_idx, build_tree, tmpdownload, errlog, faults, child, pipes, threads,
       out_tree, sub_idx, sel_idx, words, package_tree, output_dirs,
       tarballs, issued, clock, invocation, tmp_users >>

Streams == { "stdout", "stderr" }

\* the directories that exist outside the scratch area before the run
OutputAreas ==
    { AllPrefixes(Cwd),
      AllPrefixes(Cwd) \cup AllPrefixes(<< <<"srv">>, <<"srv">> >>) }

\* The runs of the model: every descriptor with sources is run in one
\* environment, the descriptors without sources in every environment (a
\* directory /srv/srv matters to an absolute output_path only).
\* the state of one run of main() before its first statement
RunInit ==
    /\ pc = "create_build_dir"
    /\ panic_msg = ""
    /\ scratch = {}
    /\ source_idx = 1
    /\ build_tree = {}
    /\ tmpdownload = {}
    /\ errlog = {}
    /\ faults = {}
    /\ child = [state |-> "none", written |-> [s \in Streams |-> 0]]
    /\ pipes = [s \in Streams |-> 0]
    /\ threads = [s \in Streams |-> "none"]
    /\ out_tree = EmptyTree
    /\ sub_idx = 1
    /\ sel_idx = 1
    /\ words = << >>
    /\ package_tree = NoEntries
    /\ tarballs = NoEntries
    /\ issued = << >>

\* no other invocation is looked at
NoInvocations ==
    /\ clock = 0
    /\ invocation = << >>
    /\ tmp_users = NoEntries

Init ==
    /\ package_file \in PkgFiles
    /\ output_path \in OutputPaths
    /\ shopt_works \in BOOLEAN
    /\ output_dirs \in OutputAreas
    /\ package_file.source # << >> =>
          /\ output_path = <<SLASH, "srv">>
          /\ shopt_works
          /\ output_dirs = AllPrefixes(Cwd)
    /\ output_path = <<"out">> => output_dirs = AllPrefixes(Cwd)
    /\ RunInit
    /\ NoInvocations

setupVars == << clock, invocation, tmp_users >>
envVars == << package_file, output_path, shopt_works, setupVars >>
fetchVars == << source_idx, build_tree, tmpdownload >>
procVars == << child, pipes, threads >>
packVars == << sub_idx, sel_idx, words, package_tree, output_dirs, tarballs >>

\* the main thread ran to the end of main(), or panicked: the process is gone
Ended == pc \in { "done", "panicked" }

\* .expect(msg) on an Err: the main thread panics and the process ends
Panic(msg) ==
    /\ pc' = "panicked"
    /\ panic_msg' = msg

Goto(label) ==
    /\ pc' = label
    /\ panic_msg' = panic_msg

\* the results an operation can have: it can always fail, and it can succeed
\* only when the state of the file system allows it
Outcomes(possible) == IF possible THEN BOOLEAN ELSE {FALSE}

\* a failure of an operation that could have succeeded is an injected fault
Fault(ok, possible, kind) ==
    faults' = IF ~ok /\ possible THEN faults \cup {kind} ELSE faults

\* eprintln!(msg) when the command did not succeed
LogUnless(ok, msg, at) ==
    errlog' = IF ok THEN errlog ELSE errlog \cup { <<msg, at>> }

(* ----------------- setup_build_environment: directories --------------- *)

CreateBuildDir ==
    /\ pc = "create_build_dir"
    /\ \E ok \in BOOLEAN :
          /\ Fault(ok, TRUE, "fs")
          /\ IF ok
             THEN scratch' = scratch \cup {"build_dir"} /\ Goto("create_out_dir")
             ELSE scratch' = scratch /\ Panic("Unable to create build directory")
    /\ UNCHANGED << envVars, issued, fetchVars, errlog, procVars, out_tree, packVars >>

CreateOutDir ==
    /\ pc = "create_out_dir"
    /\ \E ok \in BOOLEAN :
          /\ Fault(ok, TRUE, "fs")
          /\ IF ok
             THEN scratch' = scratch \cup {"out_dir"} /\ Goto("create_package_dir")
             ELSE scratch' = scratch /\ Panic("Unable to create out directory")
    /\ UNCHANGED << envVars, issued, fetchVars, errlog, procVars, out_tree, packVars >>

IsGit(src) == EndsWith(src.source, <<".git">>)

IsTarball(src) ==
    \/ EndsWith(src.source, <<".tar", ".gz">>)
    \/ EndsWith(src.source, <<".tgz">>)
    \/ EndsWith(src.source, <<".tar", ".bz2">>)
    \/ EndsWith(src.source, <<".tar", ".xz">>)

\* a test for .zip that also takes every name ending in .gz
IsZipOrGz(src) == EndsWith(src.source, <<".zip">>) \/ EndsWith(src.source, <<".gz">>)

IsZip(src) == EndsWith(src.source, <<".zip">>)

\* where the main thread goes in the loop over the sources: the first of
\* the three `if` blocks, from block b of source i on, whose test holds
RECURSIVE FetchStep(_, _, _)
FetchStep(sources, i, b) ==
    IF i > Len(sources) THEN [pc |-> "build", idx |-> i]
    ELSE IF b <= 1 /\ IsGit(sources[i]) THEN [pc |-> "git_clone", idx |-> i]
    ELSE IF b <= 2 /\ IsTarball(sources[i]) THEN [pc |-> "curl_tarball", idx |-> i]
    ELSE IF b <= 3 /\ IsZip(sources[i]) THEN [pc |-> "curl_zip", idx |-> i]
    ELSE FetchStep(sources, i + 1, 1)

FetchGoto(i, b) ==
    LET to == FetchStep(package_file.source, i, b)
    IN /\ Goto(to.pc)
       /\ source_idx' = to.idx

CreatePackageDir ==
    /\ pc = "create_package_dir"
    /\ \E ok \in BOOLEAN :
          /\ Fault(ok, TRUE, "fs")
          /\ IF ok
             THEN /\ scratch' = scratch \cup {"package_dir"}
                  /\ FetchGoto(1, 1)
             ELSE /\ scratch' = scratch
                  /\ Panic("Unable to create package directory")
                  /\ source_idx' = source_idx
    /\ UNCHANGED << envVars, issued, build_tree, tmpdownload, errlog, procVars,
                    out_tree, packVars >>

(* ------------------- setup_build_environment: sources ----------------- *)

CurrentSource == package_file.source[source_idx]

\* `destination` (main.rs:245-248), relative to build_dir
destination == CurrentSource.destination

\* Command::new(command)...output() for the current source
Issue(command) == issued' = Append(issued, <<source_idx, command>>)

\* the directory build_dir + destination exists
DestinationExists == destination = NoDestination \/ destination \in build_tree

\* git clone --depth 1 <source> <destination>: creates the destination when
\* it succeeds and leaves no new directory when it fails
GitClone ==
    /\ pc = "git_clone"
    /\ \E ok \in BOOLEAN :
          /\ build_tree' = IF ok THEN build_tree \cup ({destination} \ {NoDestination})
                           ELSE build_tree
          /\ LogUnless(ok, "Git clone failed", source_idx)
          /\ Fault(ok, TRUE, "command")
    /\ Issue("git clone")
    /\ IF CurrentSource.git_commit
       THEN Goto("git_reset") /\ source_idx' = source_idx
       ELSE FetchGoto(source_idx, 2)
    /\ UNCHANGED << envVars, scratch, tmpdownload, procVars, out_tree, packVars >>

\* git reset --hard <git_commit> with current_dir(destination): the command
\* cannot be spawned in a directory that does not exist, and .expect panics
GitReset ==
    /\ pc = "git_reset"
    /\ IF DestinationExists
       THEN /\ \E ok \in BOOLEAN :
                  /\ LogUnless(ok, "Git reset failed", source_idx)
                  /\ Fault(ok, TRUE, "command")
            /\ Issue("git reset")
            /\ FetchGoto(source_idx, 2)
       ELSE /\ Panic("Failed to execute command")
            /\ UNCHANGED << errlog, faults, source_idx, issued >>
    /\ UNCHANGED << envVars, scratch, build_tree, tmpdownload, procVars,
                    out_tree, packVars >>

\* curl -L <source> -o <destination>.tmpdownload
Curl(at, next) ==
    /\ pc = at
    /\ \E ok \in BOOLEAN :
          /\ tmpdownload' = IF ok THEN tmpdownload \cup {destination} ELSE tmpdownload
          /\ LogUnless(ok, "Download failed", source_idx)
          /\ Fault(ok, TRUE, "command")
    /\ Issue("curl")
    /\ Goto(next)
    /\ UNCHANGED << envVars, scratch, source_idx, build_tree, procVars,
                    out_tree, packVars >>

CurlTarball == Curl("curl_tarball", "tar_extract")

CurlZip == Curl("curl_zip", "unzip")

\* tar -xvf <destination>.tmpdownload -C <destination>: fails without the
\* download or without the directory
TarExtract ==
    /\ pc = "tar_extract"
    /\ LET possible == destination \in tmpdownload /\ DestinationExists
       IN \E ok \in Outcomes(possible) :
             /\ LogUnless(ok, "Extraction failed", source_idx)
             /\ Fault(ok, possible, "command")
    /\ Issue("tar")
    /\ FetchGoto(source_idx, 3)
    /\ UNCHANGED << envVars, scratch, build_tree, tmpdownload, procVars,
                    out_tree, packVars >>

\* unzip -o <destination>.tmpdownload -d <destination>: creates the directory
Unzip ==
    /\ pc = "unzip"
    /\ LET possible == destination \in tmpdownload
       IN \E ok \in Outcomes(possible) :
             /\ build_tree' = IF ok
                              THEN build_tree \cup ({destination} \ {NoDestination})
                              ELSE build_tree
             /\ LogUnless(ok, "Extraction failed", source_idx)
             /\ Fault(ok, possible, "command")
    /\ Issue("unzip")
    /\ FetchGoto(source_idx, 4)
    /\ UNCHANGED << envVars, scratch, tmpdownload, procVars, out_tree, packVars >>

(* --------------------------- the build script ------------------------- *)

script == package_file.build

\* Command::new("bash")...spawn(), and the two std::thread::spawn
SpawnBuild ==
    /\ pc = "build"
    /\ IF script.present
       THEN \E ok \in BOOLEAN :
               /\ Fault(ok, TRUE, "command")
               /\ IF ok
                  THEN /\ child' = [child EXCEPT !.state = "running"]
                       /\ threads' = [s \in Streams |-> "copying"]
                       /\ Goto("child_wait")
                  ELSE /\ Panic("Failed to execute command")
                       /\ UNCHANGED << child, threads >>
       ELSE /\ Goto("create_output_dir")
            /\ UNCHANGED << child, threads, faults >>
    /\ UNCHANGED << envVars, issued, scratch, fetchVars, errlog, pipes, out_tree, packVars >>

\* the child writes a chunk to one of its pipes
ChildWrite(s) ==
    /\ child.state = "running"
    /\ child.written[s] < script.chunks
    /\ child' = [child EXCEPT !.written[s] = @ + 1]
    /\ pipes' = [pipes EXCEPT ![s] = @ + 1]
    /\ UNCHANGED << envVars, issued, pc, panic_msg, scratch, fetchVars, errlog, faults,
                    threads, out_tree, packVars >>

\* the child exits, having written its output and its files under $OUT
ChildExit ==
    /\ child.state = "running"
    /\ \A s \in Streams : child.written[s] = script.chunks
    /\ child' = [child EXCEPT !.state = "exited"]
    /\ out_tree' = TreeOf(script.writes)
    /\ UNCHANGED << envVars, issued, pc, panic_msg, scratch, fetchVars, errlog, faults,
                    pipes, threads, packVars >>

\* io::copy in a copy thread: one chunk from the pipe to the own stream
CopyChunk(s) ==
    /\ ~Ended
    /\ threads[s] = "copying"
    /\ pipes[s] > 0
    /\ pipes' = [pipes EXCEPT ![s] = @ - 1]
    /\ UNCHANGED << envVars, issued, pc, panic_msg, scratch, fetchVars, errlog, faults,
                    child, threads, out_tree, packVars >>

\* io::copy returns at end of file: the pipe is empty and the child is gone
CopyEof(s) ==
    /\ ~Ended
    /\ threads[s] = "copying"
    /\ pipes[s] = 0
    /\ child.state = "exited"
    /\ threads' = [threads EXCEPT ![s] = "done"]
    /\ UNCHANGED << envVars, issued, pc, panic_msg, scratch, fetchVars, errlog, faults,
                    child, pipes, out_tree, packVars >>

\* child.wait() with the exit status never tested
ChildWaitIgnoringStatus ==
    /\ pc = "child_wait"
    /\ child.state = "exited"
    /\ errlog' = errlog
    /\ Goto("create_output_dir")
    /\ UNCHANGED << envVars, issued, scratch, fetchVars, faults, procVars, out_tree,
                    packVars >>

\* child.try_wait() in the place of child.wait(): the main thread goes on
\* without the child having exited
ChildWaitNotBlocking ==
    /\ pc = "child_wait"
    /\ errlog' = errlog
    /\ Goto("create_output_dir")
    /\ UNCHANGED << envVars, issued, scratch, fetchVars, faults, procVars, out_tree,
                    packVars >>

\* child.wait(), then the test of the exit status (main.rs:90-95)
ChildWait ==
    /\ pc = "child_wait"
    /\ child.state = "exited"
    /\ IF script.status # 0
       THEN /\ errlog' = errlog \cup { <<"Build script failed", 0>> }
            /\ Panic("Build script failed")
       ELSE /\ errlog' = errlog
            /\ Goto("create_output_dir")
    /\ UNCHANGED << envVars, issued, scratch, fetchVars, faults, procVars, out_tree,
                    packVars >>

(* ------------------------------ packaging ----------------------------- *)

subpackages == package_file.subpackage

subpackage == subpackages[sub_idx]

\* format!("{}/{}", &package_dir, subpackage.name), as an absolute path
subpackage_dir == PackageDirPath \o << <<subpackage.name>> >>

\* format!("{}/{}.tar.gz", &output_path, subpackage.name)
tarball_name == output_path \o <<SLASH, subpackage.name, ".tar.gz">>

\* the directory d exists
DirExists(d) ==
    \/ d \in output_dirs
    \/ \E n \in DOMAIN package_tree : d = PackageDirPath \o << <<n>> >>

\* absolute path q is p or lies under p
Inside(p, q) == Len(q) >= Len(p) /\ SubSeq(q, 1, Len(p)) = p

\* the head of the loop over the subpackages, and the code after it
SubGoto(i) ==
    /\ sub_idx' = i
    /\ sel_idx' = 1
    /\ Goto(IF i <= Len(subpackages) THEN "create_subpackage_dir" ELSE "move_out_dir")

\* the head of the loop over subpackage.files, and the code after it
SelGoto(k) ==
    /\ sel_idx' = k
    /\ Goto(IF k <= Len(subpackage.files) THEN "expand_selector" ELSE "copy_manifest")

\* fs::create_dir_all(&output_path)
CreateOutputDir ==
    /\ pc = "create_output_dir"
    /\ \E ok \in BOOLEAN :
          /\ Fault(ok, TRUE, "fs")
          /\ IF ok
             THEN /\ output_dirs' = output_dirs \cup AllPrefixes(Resolve(Cwd, output_path))
                  /\ SubGoto(1)
             ELSE /\ Panic("Unable to create output directory")
                  /\ UNCHANGED << output_dirs, sub_idx, sel_idx >>
    /\ UNCHANGED << envVars, issued, scratch, fetchVars, errlog, procVars, out_tree,
                    words, package_tree, tarballs >>

\* fs::create_dir_all(&subpackage_dir)
CreateSubpackageDir ==
    /\ pc = "create_subpackage_dir"
    /\ \E ok \in BOOLEAN :
          /\ Fault(ok, TRUE, "fs")
          /\ IF ok
             THEN /\ package_tree' =
                        With(package_tree, subpackage.name,
                             [files |-> {}, dirs |-> {}, manifest |-> FALSE])
                  /\ SelGoto(1)
             ELSE /\ Panic("Unable to create subpackage directory")
                  /\ UNCHANGED << package_tree, sel_idx >>
    /\ UNCHANGED << envVars, issued, scratch, fetchVars, errlog, procVars, out_tree,
                    sub_idx, words, output_dirs, tarballs >>

\* a glob pattern matches a path; `*` matches the tokens of one name
RECURSIVE Match(_, _)
Match(p, s) ==
    IF p = << >> THEN s = << >>
    ELSE IF Head(p) = STAR
         THEN \E k \in 1..Len(s) :
                 /\ \A j \in 1..k : s[j] # SLASH
                 /\ Match(Tail(p), SubSeq(s, k + 1, Len(s)))
         ELSE s # << >> /\ Head(s) = Head(p) /\ Match(Tail(p), Tail(s))

Entries(tree) == tree.files \cup tree.dirs

\* the names, each after out_dir, separated by spaces, as echo prints them
RECURSIVE EchoNames(_)
EchoNames(names) ==
    IF names = {} THEN << >>
    ELSE LET e == CHOOSE x \in names : TRUE
             rest == EchoNames(names \ {e})
         IN <<OUT>> \o e \o (IF rest = << >> THEN << >> ELSE <<SPACE>> \o rest)

\* standard output of sh -c "shopt -s nullglob; shopt -s dotglob; echo
\* <out_dir><file_selector>": a word with no match is dropped under
\* nullglob and printed as it is otherwise
EchoOutput(file_selector) ==
    LET matched == { e \in Entries(out_tree) : Match(file_selector, e) }
        isGlob == \E i \in 1..Len(file_selector) : file_selector[i] = STAR
    IN IF matched # {} THEN EchoNames(matched)
       ELSE IF isGlob /\ shopt_works THEN << >>
       ELSE <<OUT>> \o file_selector

\* the sh command of main.rs:118-126 and the split of its output
ExpandSelector ==
    /\ pc = "expand_selector"
    /\ \E ok \in BOOLEAN :
          /\ Fault(ok, TRUE, "command")
          /\ LogUnless(ok, "Failed to expand file selector", sub_idx)
          /\ IF ok
             THEN LET files == Split(EchoOutput(subpackage.files[sel_idx]), SPACE)
                  IN /\ words' = files
                     /\ IF files = << >>
                        THEN SelGoto(sel_idx + 1)
                        ELSE Goto("move_file") /\ sel_idx' = sel_idx
             ELSE /\ words' = words
                  /\ SelGoto(sel_idx + 1)
    /\ UNCHANGED << envVars, issued, scratch, fetchVars, procVars, out_tree, sub_idx,
                    package_tree, output_dirs, tarballs >>

\* file.rsplitn(2, '/').last().unwrap(): the text before the last slash, or
\* the whole text when it has no slash
FileDir(file) ==
    IF \E i \in 1..Len(file) : file[i] = SLASH
    THEN LET last == CHOOSE i \in 1..Len(file) :
                        file[i] = SLASH /\ \A j \in (i + 1)..Len(file) : file[j] # SLASH
         IN SubSeq(file, 1, last - 1)
    ELSE file

\* the relative path with the given components
RECURSIVE JoinPath(_)
JoinPath(components) ==
    IF components = << >> THEN << >>
    ELSE <<SLASH>> \o Head(components) \o JoinPath(Tail(components))

\* the directories fs::create_dir_all makes exist under the subpackage
\* directory for format!("{}/{}", &subpackage_dir, file_dir)
DirsCreated(file_dir) ==
    LET c == Normalize(file_dir)
    IN { JoinPath(SubSeq(c, 1, n)) : n \in 1..Len(c) }

\* where mv puts the source: under the target when the target is a directory
MvTarget(file, tree) ==
    LET c == Normalize(file)
    IN IF c # << >> /\ JoinPath(c) \in tree.dirs
       THEN JoinPath(c) \o <<SLASH>> \o c[Len(c)]
       ELSE file

\* the tree after mv <out_dir><file> <subpackage_dir><file>
MvInto(file, from, tree) ==
    LET to == MvTarget(file, tree)
        moved(set) == { to \o SubSeq(e, Len(file) + 1, Len(e)) :
                          e \in { x \in set : Under(file, x) } }
    IN [tree EXCEPT !.files = @ \cup moved(from.files),
                    !.dirs = @ \cup moved(from.dirs)]

\* what mv leaves in the tree it moved `file` out of
MvOutOf(file, from) ==
    [files |-> { e \in from.files : ~Under(file, e) },
     dirs |-> { e \in from.dirs : ~Under(file, e) }]

\* one turn of the loop over the words (main.rs:139-154)
MoveFile ==
    /\ pc = "move_file"
    /\ LET file == SelectSeq(Head(words), LAMBDA t : t # OUT)
           file_dir == FileDir(file)
           tree == package_tree[subpackage.name]
           made == [tree EXCEPT !.dirs = @ \cup DirsCreated(file_dir)]
           possible == DirsCreated(file_dir) \cap tree.files = {}
       IN \E ok \in Outcomes(possible) :
             /\ Fault(ok, possible, "fs")
             /\ IF ok
                THEN /\ IF file \in Entries(out_tree)
                        THEN /\ package_tree' = [package_tree EXCEPT
                                    ![subpackage.name] = MvInto(file, out_tree, made)]
                             /\ out_tree' = MvOutOf(file, out_tree)
                        ELSE /\ package_tree' = [package_tree EXCEPT
                                    ![subpackage.name] = made]
                             /\ out_tree' = out_tree
                     /\ words' = Tail(words)
                     /\ IF Tail(words) = << >>
                        THEN SelGoto(sel_idx + 1)
                        ELSE Goto("move_file") /\ sel_idx' = sel_idx
                ELSE /\ Panic("Unable to create file directory")
                     /\ UNCHANGED << package_tree, out_tree, words, sel_idx >>
    /\ UNCHANGED << envVars, issued, scratch, fetchVars, errlog, procVars, sub_idx,
                    output_dirs, tarballs >>

\* the manifest copied beside the subpackage directory, not into it
CopyManifestBeside ==
    /\ pc = "copy_manifest"
    /\ \E ok \in BOOLEAN :
          /\ Fault(ok, TRUE, "fs")
          /\ IF ok
             THEN Goto("tar")
             ELSE Panic("Unable to copy package file to subpackage directory")
    /\ UNCHANGED << envVars, issued, scratch, fetchVars, errlog, procVars, out_tree,
                    packVars >>

\* fs::copy(&file_path, subpackage_dir + "/package.toml")
CopyManifest ==
    /\ pc = "copy_manifest"
    /\ \E ok \in BOOLEAN :
          /\ Fault(ok, TRUE, "fs")
          /\ IF ok
             THEN /\ package_tree' = [package_tree EXCEPT
                                         ![subpackage.name].manifest = TRUE]
                  /\ Goto("tar")
             ELSE /\ Panic("Unable to copy package file to subpackage directory")
                  /\ UNCHANGED package_tree
    /\ UNCHANGED << envVars, issued, scratch, fetchVars, errlog, procVars, out_tree,
                    sub_idx, sel_idx, words, output_dirs, tarballs >>

\* tar -czf <tarball_name> ./ with current_dir(subpackage_dir): a relative
\* tarball_name is resolved in the subpackage directory
TarSubpackage ==
    /\ pc = "tar"
    /\ LET path == Resolve(subpackage_dir, tarball_name)
           possible == DirExists(Parent(path))
       IN \E ok \in Outcomes(possible) :
             /\ Fault(ok, possible, "command")
             /\ LogUnless(ok, "Failed to create tarball", sub_idx)
             /\ IF ok
                THEN /\ tarballs' = With(tarballs, path, package_tree[subpackage.name])
                     /\ Goto("remove_subpackage_dir")
                     /\ UNCHANGED << sub_idx, sel_idx >>
                ELSE /\ tarballs' = tarballs
                     /\ SubGoto(sub_idx + 1)
    /\ UNCHANGED << envVars, issued, scratch, fetchVars, procVars, out_tree, words,
                    package_tree, output_dirs >>

\* fs::remove_dir_all(&subpackage_dir)
RemoveSubpackageDir ==
    /\ pc = "remove_subpackage_dir"
    /\ \E ok \in BOOLEAN :
          /\ Fault(ok, TRUE, "fs")
          /\ IF ok
             THEN /\ package_tree' = Without(package_tree, {subpackage.name})
                  /\ tarballs' = Without(tarballs,
                        { q \in DOMAIN tarballs : Inside(subpackage_dir, q) })
                  /\ Goto("copy_tarball")
             ELSE /\ Panic("Unable to remove subpackage directory")
                  /\ UNCHANGED << package_tree, tarballs >>
    /\ UNCHANGED << envVars, issued, scratch, fetchVars, errlog, procVars, out_tree,
                    sub_idx, sel_idx, words, output_dirs >>

\* what fs::copy leaves of a file copied onto itself: the file is truncated
Truncated == [files |-> {}, dirs |-> {}, manifest |-> FALSE]

\* fs::copy(&tarball_name, format!("{}/{}", &output_path, tarball_name))
CopyTarball ==
    /\ pc = "copy_tarball"
    /\ LET from == Resolve(Cwd, tarball_name)
           to == Resolve(Cwd, output_path \o <<SLASH>> \o tarball_name)
           possible == from \in DOMAIN tarballs /\ DirExists(Parent(to))
       IN \E ok \in Outcomes(possible) :
             /\ Fault(ok, possible, "fs")
             /\ IF ok
                THEN /\ tarballs' = With(tarballs, to,
                                         IF from = to THEN Truncated ELSE tarballs[from])
                     /\ SubGoto(sub_idx + 1)
                ELSE /\ Panic("Unable to copy tarball to output directory")
                     /\ UNCHANGED << tarballs, sub_idx, sel_idx >>
    /\ UNCHANGED << envVars, issued, scratch, fetchVars, errlog, procVars, out_tree,
                    words, package_tree, output_dirs >>

\* mv <out_dir> <package_dir>/<package name>: .output() gives the exit
\* status of mv, which main() never reads, so the run goes on either way
MoveOutDir ==
    /\ pc = "move_out_dir"
    /\ LET possible == {"out_dir", "package_dir"} \subseteq scratch
       IN \E ok \in Outcomes(possible) :
             /\ Fault(ok, possible, "command")
             /\ IF ok
                THEN /\ package_tree' =
                           With(package_tree, package_file.name,
                                [files |-> out_tree.files, dirs |-> out_tree.dirs,
                                 manifest |-> FALSE])
                     /\ out_tree' = EmptyTree
                     /\ scratch' = scratch \ {"out_dir"}
                ELSE UNCHANGED << package_tree, out_tree, scratch >>
    /\ Goto("remove_build_dir")
    /\ UNCHANGED << envVars, issued, fetchVars, errlog, procVars, sub_idx,
                    sel_idx, words, output_dirs, tarballs >>

\* fs::remove_dir_all(&build_dir); <build_dir>.tmpdownload is beside it
RemoveBuildDir ==
    /\ pc = "remove_build_dir"
    /\ \E ok \in BOOLEAN :
          /\ Fault(ok, TRUE, "fs")
          /\ IF ok
             THEN /\ scratch' = scratch \ {"build_dir"}
                  /\ build_tree' = {}
                  /\ tmpdownload' = tmpdownload \cap {NoDestination}
                  /\ Goto("remove_package_dir")
             ELSE /\ Panic("Unable to remove build directory")
                  /\ UNCHANGED << scratch, build_tree, tmpdownload >>
    /\ UNCHANGED << envVars, issued, source_idx, errlog, procVars, out_tree, packVars >>

\* fs::remove_dir_all(&package_dir), and the end of main()
RemovePackageDir ==
    /\ pc = "remove_package_dir"
    /\ \E ok \in BOOLEAN :
          /\ Fault(ok, TRUE, "fs")
          /\ IF ok
             THEN /\ scratch' = scratch \ {"package_dir"}
                  /\ package_tree' = NoEntries
                  /\ tarballs' = Without(tarballs,
                        { q \in DOMAIN tarballs : Inside(PackageDirPath, q) })
                  /\ Goto("done")
             ELSE /\ Panic("Unable to remove package directory")
                  /\ UNCHANGED << scratch, package_tree, tarballs >>
    /\ UNCHANGED << envVars, issued, fetchVars, errlog, procVars, out_tree, sub_idx,
                    sel_idx, words, output_dirs >>

(* --------------------------- specification ---------------------------- *)

Next ==
    \/ CreateBuildDir
    \/ CreateOutDir
    \/ CreatePackageDir
    \/ GitClone
    \/ GitReset
    \/ CurlTarball
    \/ TarExtract
    \/ CurlZip
    \/ Unzip
    \/ SpawnBuild
    \/ \E s \in Streams : ChildWrite(s)
    \/ ChildExit
    \/ \E s \in Streams : CopyChunk(s)
    \/ \E s \in Streams : CopyEof(s)
    \/ ChildWait
    \/ CreateOutputDir
    \/ CreateSubpackageDir
    \/ ExpandSelector
    \/ MoveFile
    \/ CopyManifest
    \/ TarSubpackage
    \/ RemoveSubpackageDir
    \/ CopyTarball
    \/ MoveOutDir
    \/ RemoveBuildDir
    \/ RemovePackageDir

Spec == Init /\ [][Next]_vars

(* ------------ concurrent runs of setup_build_environment -------------- *)

\* the processes running main() at the same time
Invocations == { 1, 2 }

\* PkgFilePackage: name and version, as texts
Packages ==
    { [name |-> <<"pkg">>, version |-> <<"1">>],
      [name |-> <<"pkg">>, version |-> <<"2">>] }

\* the ends of the three directory names
Suffixes ==
    [build_dir |-> << >>, out_dir |-> <<"_out">>, package_dir |-> <<"_package">>]

\* format!("/tmp/pkgbuilder/build_{}_{}_{}<suffix>", name, version, timestamp)
ScratchName(package, timestamp, kind) ==
    <<"/tmp/pkgbuilder/build_">> \o package.name \o <<"_">> \o package.version
        \o <<"_", timestamp>> \o Suffixes[kind]

\* the statement after the creation of each directory
AfterCreate ==
    [build_dir |-> "out_dir", out_dir |-> "package_dir", package_dir |-> "returned"]

\* the variables of the run of main() followed by Spec
runVars ==
    << package_file, output_path, shopt_works, pc, panic_msg, scratch,
       source_idx, build_tree, tmpdownload, errlog, faults, child, pipes, threads,
       out_tree, sub_idx, sel_idx, words, package_tree, output_dirs,
       tarballs, issued >>

\* two invocations at their first statement, each for one package; the run
\* followed by Spec stays at its first statement
SetupInit ==
    /\ package_file = [name |-> "pkg", source |-> << >>, build |-> NoBuild,
                       subpackage |-> << >>]
    /\ output_path = <<"out">>
    /\ shopt_works = TRUE
    /\ output_dirs = AllPrefixes(Cwd)
    /\ RunInit
    /\ clock = 1
    /\ invocation \in [Invocations ->
                          { [package |-> p, at |-> "timestamp", timestamp |-> 0] :
                              p \in Packages }]
    /\ tmp_users = NoEntries

\* chrono::Utc::now().timestamp(): the clock, in whole seconds
ReadTimestamp(i) ==
    /\ invocation[i].at = "timestamp"
    /\ invocation' = [invocation EXCEPT ![i].timestamp = clock, ![i].at = "build_dir"]
    /\ UNCHANGED << runVars, clock, tmp_users >>

\* fs::create_dir_all(&dir).expect(..): Ok also when the directory exists
SetupCreateDir(i) ==
    /\ invocation[i].at \in DOMAIN Suffixes
    /\ LET kind == invocation[i].at
           dir == ScratchName(invocation[i].package, invocation[i].timestamp, kind)
           users == IF dir \in DOMAIN tmp_users THEN tmp_users[dir] ELSE {}
       IN \E ok \in BOOLEAN :
             IF ok
             THEN /\ tmp_users' = With(tmp_users, dir, users \cup {i})
                  /\ invocation' = [invocation EXCEPT ![i].at = AfterCreate[kind]]
             ELSE /\ tmp_users' = tmp_users
                  /\ invocation' = [invocation EXCEPT ![i].at = "panicked"]
    /\ UNCHANGED << runVars, clock >>

\* a second passes
ClockTick ==
    /\ clock < MaxClock
    /\ clock' = clock + 1
    /\ UNCHANGED << runVars, invocation, tmp_users >>

SetupNext ==
    \/ \E i \in Invocations : ReadTimestamp(i)
    \/ \E i \in Invocations : SetupCreateDir(i)
    \/ ClockTick

SetupSpec == SetupInit /\ [][SetupNext]_vars

(* ------------------------------- claims ------------------------------- *)

PackagingPcs ==
    { "create_output_dir", "create_subpackage_dir", "expand_selector",
      "move_file", "copy_manifest", "tar", "remove_subpackage_dir",
      "copy_tarball", "move_out_dir" }

CleanupPcs == { "remove_build_dir", "remove_package_dir" }

\* the panics of the loop over the subpackages
LoopPanics ==
    { "Unable to create subpackage directory", "Unable to create file directory",
      "Unable to copy package file to subpackage directory",
      "Unable to remove subpackage directory",
      "Unable to copy tarball to output directory" }

\* the build script exists and exits with a status other than 0
BuildFailed == script.present /\ script.status # 0

\* the files the build script leaves under out_dir
BuiltFiles == IF script.present THEN script.writes ELSE {}

\* the file name of an archive
ArchiveName(p) == p[Len(p)]

\* an archive named after the i-th subpackage exists
HasArchive(i) ==
    \E p \in DOMAIN tarballs : ArchiveName(p) = <<subpackages[i].name, ".tar.gz">>

\* the archive of the i-th subpackage holds the file f
InArchive(i, f) ==
    \E p \in DOMAIN tarballs :
        /\ ArchiveName(p) = <<subpackages[i].name, ".tar.gz">>
        /\ f \in tarballs[p].files

\* the tree of the main package under package_dir
MainTree ==
    IF package_file.name \in DOMAIN package_tree
    THEN package_tree[package_file.name]
    ELSE [files |-> {}, dirs |-> {}, manifest |-> FALSE]

\* a pattern of the i-th subpackage matches the file f
Claims(i, f) ==
    \E k \in 1..Len(subpackages[i].files) : Match(subpackages[i].files[k], f)

\* no pattern of the i-th subpackage matches anything the script has built
ZeroMatch(i) ==
    \A k \in 1..Len(subpackages[i].files) :
        \A e \in Entries(TreeOf(BuiltFiles)) : ~Match(subpackages[i].files[k], e)

\* a failure was logged for the i-th subpackage and the code said `continue`
SkipLogged(i) ==
    \/ <<"Failed to expand file selector", i>> \in errlog
    \/ <<"Failed to create tarball", i>> \in errlog

\* C1: a build script that is absent or exits with status 0 is followed by
\* packaging (the only panic of the wait is the one for a non-zero status),
\* and after a non-zero status no packaging step runs: the main thread is
\* never at a packaging or cleanup statement, no subpackage directory and
\* no archive exists.
C1_BuildStatusGatesPackaging ==
    /\ BuildFailed =>
          /\ pc \notin PackagingPcs \cup CleanupPcs \cup {"done"}
          /\ tarballs = NoEntries
          /\ package_tree = NoEntries
    /\ panic_msg = "Build script failed" => BuildFailed

\* a script that wrote a file and exited with status 2 ended the run
C1_Witness ==
    /\ pc = "panicked"
    /\ panic_msg = "Build script failed"
    /\ script.status = 2
    /\ out_tree.files # {}

\* C2 (as claimed): when nothing outside the program fails and no
\* subpackage is skipped, a file matched by patterns of two subpackages is
\* never in the later one's archive, never in the main package's tree, and
\* at the end of the run it is in the archive of the first-declared one.
C2_FirstDeclaredWins ==
    (faults = {} /\ \A n \in 1..Len(subpackages) : ~SkipLogged(n)) =>
        \A i \in 1..Len(subpackages) : \A j \in (i + 1)..Len(subpackages) :
            \A f \in BuiltFiles :
                (Claims(i, f) /\ Claims(j, f)) =>
                    /\ ~InArchive(j, f)
                    /\ f \notin MainTree.files
                    /\ pc = "done" => InArchive(i, f)

\* C3 (as claimed): whenever the run has ended, by the end of main() or by
\* a panic, the build directory does not exist.
C3_CleanupAlwaysRemovesBuildTree == Ended => "build_dir" \notin scratch

\* C4 (as claimed): a completed run of a descriptor without subpackages
\* leaves exactly one archive, named after the package, holding the
\* manifest and the whole output tree.
C4_SinglePackageArchive ==
    (pc = "done" /\ subpackages = << >>) =>
        /\ Cardinality(DOMAIN tarballs) = 1
        /\ \A p \in DOMAIN tarballs :
              /\ ArchiveName(p) = <<package_file.name, ".tar.gz">>
              /\ tarballs[p].manifest
              /\ tarballs[p].files = BuiltFiles

\* C5 (as claimed): once the main thread is past the wait for the child
\* (at a packaging statement, or aborted for the exit status), the child
\* has exited and both copy threads have finished.
C5_ExecutorJoinsCopyTasks ==
    (script.present /\ (pc \in PackagingPcs \/ panic_msg = "Build script failed")) =>
        /\ child.state = "exited"
        /\ \A s \in Streams : threads[s] = "done"

\* C6 (as claimed): once the scratch directories exist, no failure of a
\* fetch command ends the run: a panic can only happen after every source
\* of the list has been handled.
C6_FetchFailuresNonFatal ==
    (pc = "panicked" /\ "package_dir" \in scratch) =>
        source_idx > Len(package_file.source)

\* C7: every archive was made from a directory that held the manifest, and
\* the main thread is at the tar command only with the manifest in the
\* subpackage directory.
C7_ArchivesHoldManifest ==
    /\ \A p \in DOMAIN tarballs : tarballs[p].manifest
    /\ pc = "tar" => package_tree[subpackage.name].manifest

\* an archive holding the manifest and a file exists
C7_Witness ==
    \E p \in DOMAIN tarballs : tarballs[p].manifest /\ tarballs[p].files # {}

\* C8 (as claimed): when nothing outside the program fails, a subpackage
\* whose patterns match nothing is handled without a panic of the loop and
\* without moving a file, and once the loop is past it its archive exists
\* and holds only the manifest.
C8_ZeroMatchSubpackage ==
    faults = {} =>
        \A i \in 1..Len(subpackages) :
            ZeroMatch(i) =>
                /\ ~(pc = "panicked" /\ panic_msg \in LoopPanics /\ sub_idx = i)
                /\ subpackages[i].name \in DOMAIN package_tree =>
                      package_tree[subpackages[i].name].files = {}
                /\ sub_idx > i =>
                      \E p \in DOMAIN tarballs :
                          /\ ArchiveName(p) = <<subpackages[i].name, ".tar.gz">>
                          /\ tarballs[p] = [files |-> {}, dirs |-> {}, manifest |-> TRUE]

\* C9 (as claimed): when no file-system operation is made to fail, a
\* subpackage for which a glob or tar failure was logged gets no archive,
\* and the run is not aborted.
C9_FailedSubpackageSkipped ==
    "fs" \notin faults =>
        \A i \in 1..Len(subpackages) :
            SkipLogged(i) => ~HasArchive(i) /\ pc # "panicked"

\* C10 (as claimed): when nothing fails and no subpackage was skipped, the
\* loop over the subpackages does not abort the run, and after the loop
\* the output directory holds one archive per declared subpackage.
C10_EverySubpackageArchived ==
    (faults = {} /\ ~BuildFailed /\ \A i \in 1..Len(subpackages) : ~SkipLogged(i)) =>
        /\ pc # "panicked"
        /\ pc \in {"move_out_dir"} \cup CleanupPcs \cup {"done"} =>
              \A i \in 1..Len(subpackages) :
                  Resolve(Cwd, output_path \o <<SLASH, subpackages[i].name, ".tar.gz">>)
                      \in DOMAIN tarballs

\* the built files no pattern of any subpackage matches
Unclaimed == { f \in BuiltFiles : \A i \in 1..Len(subpackages) : ~Claims(i, f) }

\* C11 (as claimed): a completed run of a descriptor with subpackages, in
\* which nothing outside the program failed, leaves an archive named after
\* the package that holds the manifest and exactly the unclaimed files.
C11_MainPackageArchived ==
    (pc = "done" /\ subpackages # << >> /\ faults = {}) =>
        \E p \in DOMAIN tarballs :
            /\ ArchiveName(p) = <<package_file.name, ".tar.gz">>
            /\ tarballs[p].manifest
            /\ tarballs[p].files = Unclaimed

\* C12 (as claimed): no directory of /tmp/pkgbuilder is ever handed to two
\* invocations: each successful creation made a directory that did not
\* exist, and a creation that meets an existing directory fails.
C12_WorkspaceExclusive ==
    \A dir \in DOMAIN tmp_users : Cardinality(tmp_users[dir]) <= 1

\* C13 (as claimed): when nothing outside the program fails and no
\* subpackage is skipped, once the files of a subpackage have been moved
\* every built file one of its patterns matches lies in the subpackage
\* directory at its own relative path (or went to an earlier subpackage),
\* and the subpackage directory holds no file at another path.
C13_RelativePathsKept ==
    (faults = {} /\ pc = "copy_manifest" /\ \A n \in 1..Len(subpackages) : ~SkipLogged(n)) =>
        LET tree == package_tree[subpackage.name]
        IN /\ tree.files \subseteq BuiltFiles
           /\ \A f \in BuiltFiles :
                 Claims(sub_idx, f) =>
                     \/ f \in tree.files
                     \/ \E j \in 1..(sub_idx - 1) : InArchive(j, f)

FetchPcs == { "git_clone", "git_reset", "curl_tarball", "tar_extract", "curl_zip", "unzip" }

AllScratch == { "build_dir", "out_dir", "package_dir" }

\* the commands the handler of a source runs when none of them panics
HandlerCommands(src) ==
    (IF IsGit(src) THEN { "git clone" } ELSE {})
    \cup (IF IsGit(src) /\ src.git_commit THEN { "git reset" } ELSE {})
    \cup (IF IsTarball(src) THEN { "curl", "tar" } ELSE {})
    \cup (IF IsZip(src) THEN { "curl", "unzip" } ELSE {})

\* the commands run so far for the i-th source
IssuedFor(i) == { issued[k][2] : k \in { n \in 1..Len(issued) : issued[n][1] = i } }

\* C14: the sources are fetched with the three scratch directories in place
\* and before the child exists; once the child exists every source of the
\* list has had all the commands of its handler; the main thread is at a
\* packaging or cleanup statement only after the child, if there is one,
\* has exited; and while it is at a packaging statement all three scratch
\* directories still exist.
C14_StagesInOrder ==
    /\ pc \in FetchPcs => scratch = AllScratch /\ child.state = "none"
    /\ child.state # "none" =>
          /\ source_idx > Len(package_file.source)
          /\ \A i \in 1..Len(package_file.source) :
                IssuedFor(i) = HandlerCommands(package_file.source[i])
    /\ pc \in PackagingPcs \cup CleanupPcs \cup {"done"} =>
          child.state = (IF script.present THEN "exited" ELSE "none")
    /\ pc \in PackagingPcs => scratch = AllScratch

\* a run that fetched two sources, ran a build script and packaged is at its
\* last cleanup statement
C14_Witness ==
    /\ pc = "remove_package_dir"
    /\ Len(package_file.source) = 2
    /\ Len(issued) >= 3
    /\ child.state = "exited"
    /\ "build_dir" \notin scratch

\* C15 (as claimed): when nothing outside the program has failed, no
\* <destination>.tmpdownload file lies in the build tree once the build
\* script has been started.
C15_NoDownloadLeftInBuildTree ==
    (faults = {} /\ child.state # "none") => tmpdownload \ {NoDestination} = {}

\* C16 (as claimed): when the run has reached the end of main(), none of
\* the build directory, the out directory and the package directory exists.
C16_NothingLeftBehind == pc = "done" => scratch = {}

\* the external commands of each of the three handlers
Handlers == { { "git clone", "git reset" }, { "curl", "tar" }, { "curl", "unzip" } }

\* the suffixes the commands of a handler are meant for
SuffixesOf(command) ==
    CASE command \in { "git clone", "git reset" } -> { <<".git">> }
      [] command = "tar" ->
            { <<".tar", ".gz">>, <<".tgz">>, <<".tar", ".bz2">>, <<".tar", ".xz">> }
      [] command = "unzip" -> { <<".zip">> }
      [] command = "curl" ->
            { <<".tar", ".gz">>, <<".tgz">>, <<".tar", ".bz2">>, <<".tar", ".xz">>,
              <<".zip">> }

\* C17: the commands run for a source all belong to one handler, each of
\* them was run for a source with a suffix of that handler (so a source
\* with no such suffix has run no command), and every git reset was run for
\* a .git source with git_commit set, right after the git clone of the same
\* source.
C17_ClassifiedBySuffix ==
    /\ \A i \in 1..Len(package_file.source) :
          /\ \E h \in Handlers : IssuedFor(i) \subseteq h
          /\ \A c \in IssuedFor(i) :
                \E suffix \in SuffixesOf(c) : EndsWith(package_file.source[i].source, suffix)
    /\ \A k \in 1..Len(issued) :
          issued[k][2] = "git reset" =>
              /\ package_file.source[issued[k][1]].git_commit
              /\ k > 1
              /\ issued[k - 1] = << issued[k][1], "git clone" >>

\* a .git source with git_commit has been cloned and reset, a tar.gz source
\* with git_commit has been downloaded and extracted, and the build is next
C17_Witness ==
    /\ pc = "build"
    /\ Len(package_file.source) = 2
    /\ package_file.source[2].git_commit
    /\ issued = << <<1, "git clone">>, <<1, "git reset">>, <<2, "curl">>, <<2, "tar">> >>

====
